---- MODULE Spec2Model ----
(***************************************************************************)
(* A model of general_csp.py: the generic CSP engine CSP_generic           *)
(* (backtracking search, MRV/degree variable selection, LCV value          *)
(* ordering, arc-consistency propagation) and the three problem builders   *)
(* that feed it.                                                           *)
(*                                                                         *)
(* Python objects are modelled as follows.                                 *)
(*   - a variable name is a string;                                        *)
(*   - a variable reference stored in a constraint is a tagged record      *)
(*     [tag, v]: the builders store strings ("Q1") and one-element sets    *)
(*     ({"WA"}), and Python's == between a str and a set is False;         *)
(*   - a constraint dict is a record with a field "keys" holding the keys  *)
(*     the dict has, so that the code's `"variable1" in constraint` tests  *)
(*     are tests on "keys";                                                *)
(*   - an arithmetic expression  a + b + .. == r + 10 * c  is the record   *)
(*     [lhs, rhs, carry] of the names summed on each side;                 *)
(*   - the outcome of a call that may raise is a string: "True", "False"   *)
(*     or the name of the exception.                                       *)
(***************************************************************************)
EXTENDS Integers, Sequences, FiniteSets, TLC

VARIABLES
    kind,            \* which builder made the problem: "P1", "P2", "P3", or "generic"
    size,            \* the builder's argument n (0 for a generic problem)
    variables,       \* self.variables
    constraints,     \* self.constraints
    domains,         \* self.domains (mutated in place by propagation)
    startDomains,    \* the domains as handed to __init__
    hashOrder,       \* the iteration order of this process's sets of names
    assignment,      \* the dict passed down the recursion
    expanded_nodes,  \* self.expanded_nodes
    stack,           \* one frame per active _recursive_backtracking call in its value loop
    queue,           \* the worklist of the running _constraint_propagation
    pc,              \* position of the search
    result           \* what backtracking_search returned, "none" while it runs

vars == <<kind, size, variables, constraints, domains, startDomains, hashOrder,
          assignment, expanded_nodes, stack, queue, pc, result>>

-----------------------------------------------------------------------------
(* Bounds of the generic problem family *)

MaxVal == 2
MaxCons == 2
MaxQueens == 4
MaxColors == 3

-----------------------------------------------------------------------------
(* Small helpers *)

Range(s) == {s[i] : i \in DOMAIN s}

RECURSIVE SumSeq(_)
SumSeq(s) == IF s = <<>> THEN 0 ELSE Head(s) + SumSeq(Tail(s))

Abs(x) == IF x < 0 THEN -x ELSE x

\* sorted(seq, key=...): Python's sort is stable; keys[i] is the key of seq[i]
SortedByKey(seq, keys) ==
    LET rank(i) == 1 + Cardinality({j \in DOMAIN seq :
                        keys[j] < keys[i] \/ (keys[j] = keys[i] /\ j < i)})
    IN  [r \in DOMAIN seq |-> seq[CHOOSE i \in DOMAIN seq : rank(i) = r]]

\* list.remove(val): drops the first occurrence
ListRemove(s, val) ==
    LET k == CHOOSE i \in DOMAIN s : s[i] = val /\ \A j \in 1..(i-1) : s[j] # val
    IN  [i \in 1..(Len(s)-1) |-> IF i < k THEN s[i] ELSE s[i+1]]

\* a variant that leaves the entry in place
DictDel_kept(d, key) == d

\* del d[key]
DictDel(d, key) == [x \in (DOMAIN d) \ {key} |-> d[x]]

\* d[key] = val
DictSet(d, key, val) == [x \in (DOMAIN d) \cup {key} |-> IF x = key THEN val ELSE d[x]]

EmptyDict == [x \in {} |-> 0]

-----------------------------------------------------------------------------
(* Constraint records *)

PyStr(name) == [tag |-> "str", v |-> name]
PySet(name) == [tag |-> "set", v |-> name]
NoRef == [tag |-> "none", v |-> ""]
NoExpr == [lhs |-> <<>>, rhs |-> <<>>, carry |-> <<>>]

\* variable == ref, for a str `variable`
PyEq(variable, ref) == ref.tag = "str" /\ ref.v = variable

Binary(type, ref1, ref2) ==
    [keys |-> {"type", "variable1", "variable2"}, type |-> type,
     variable1 |-> ref1, variable2 |-> ref2, variables |-> <<>>, expression |-> NoExpr]

Different(vs) ==
    [keys |-> {"type", "variables"}, type |-> "different",
     variable1 |-> NoRef, variable2 |-> NoRef, variables |-> vs, expression |-> NoExpr]

SumConstraint(expr) ==
    [keys |-> {"type", "expression"}, type |-> "sum",
     variable1 |-> NoRef, variable2 |-> NoRef, variables |-> <<>>, expression |-> expr]

Predicate(vs, expr) ==
    [keys |-> {"variables", "expression"}, type |-> "",
     variable1 |-> NoRef, variable2 |-> NoRef, variables |-> vs, expression |-> expr]

Expr(lhs, rhs, carry) == [lhs |-> lhs, rhs |-> rhs, carry |-> carry]

ExprNames(e) == Range(e.lhs) \cup Range(e.rhs) \cup Range(e.carry)

\* eval(expression, {}, bindings)
Eval(e, bindings) ==
    IF ~(ExprNames(e) \subseteq DOMAIN bindings) THEN "NameError"
    ELSE IF SumSeq([i \in DOMAIN e.lhs |-> bindings[e.lhs[i]]])
            = SumSeq([i \in DOMAIN e.rhs |-> bindings[e.rhs[i]]])
              + 10 * SumSeq([i \in DOMAIN e.carry |-> bindings[e.carry[i]]])
         THEN "True" ELSE "False"

-----------------------------------------------------------------------------
(* _is_consistent *)

QueenTypes == {"row-different", "column-different", "diagonal-different"}

\* the lambdas of constraint_checks_queen; a value is a (row, column) pair
constraint_checks_queen(type, v1, v2) ==
    CASE type = "row-different"      -> v1[1] # v2[1]
      [] type = "column-different"   -> v1[2] # v2[2]
      [] type = "diagonal-different" -> Abs(v1[1] - v2[1]) # Abs(v1[2] - v2[2])

\* the body of the loop over self.constraints for one constraint c:
\* "pass" when the loop goes on, otherwise what the call returns or raises
CheckConstraint(c, temp_assignment, variable) ==
    IF {"variable1", "variable2"} \subseteq c.keys
    THEN LET var1 == c.variable1
             var2 == c.variable2
         IN  IF ~(PyEq(variable, var1) \/ PyEq(variable, var2)) THEN "pass"
             ELSE LET other_var == IF PyEq(variable, var1) THEN var2 ELSE var1
                  IN  IF other_var.tag # "str" THEN "TypeError"
                      ELSE IF other_var.v \notin DOMAIN temp_assignment THEN "pass"
                      ELSE LET val1 == temp_assignment[var1.v]
                               val2 == temp_assignment[other_var.v]
                           IN  IF "Q[" \in Range(variables)
                               THEN IF c.type \notin QueenTypes THEN "KeyError"
                                    ELSE IF ~constraint_checks_queen(c.type, val1, val2)
                                         THEN "False" ELSE "pass"
                               ELSE IF "WA" \in Range(variables)
                               THEN IF val1 = val2 THEN "False" ELSE "pass"
                               ELSE IF "F" \in Range(variables)
                               THEN "pass"   \* all(<bool>) raises inside the try: swallowed
                               ELSE "ValueError"
    ELSE IF "variables" \in c.keys /\ variable \in Range(c.variables)
    THEN IF "type" \in c.keys /\ c.type = "different"
         THEN IF \E i \in DOMAIN c.variables :
                    /\ c.variables[i] # variable
                    /\ c.variables[i] \in DOMAIN temp_assignment
                    /\ temp_assignment[variable] = temp_assignment[c.variables[i]]
              THEN "False" ELSE "pass"
         ELSE IF "expression" \in c.keys
         THEN IF Eval(c.expression, temp_assignment) = "True" THEN "pass" ELSE "False"
         ELSE "pass"
    ELSE "pass"

RECURSIVE CheckFrom(_, _, _)
CheckFrom(i, temp_assignment, variable) ==
    IF i > Len(constraints) THEN "True"
    ELSE LET r == CheckConstraint(constraints[i], temp_assignment, variable)
         IN  IF r = "pass" THEN CheckFrom(i + 1, temp_assignment, variable) ELSE r

\* the value _is_consistent(assignment, variable, value) returns, or the exception it raises
is_consistent(a, variable, value) == CheckFrom(1, DictSet(a, variable, value), variable)

\* a variant that records the candidate in the caller's dict instead of a copy
is_consistent_call_inplace(a, doms, variable, value) ==
    [ret |-> is_consistent(a, variable, value),
     assignment |-> DictSet(a, variable, value), domains |-> doms]

\* the whole call as seen by its caller: the return value, and the caller's
\* assignment and the domains after the call (temp_assignment is a fresh dict)
is_consistent_call(a, doms, variable, value) ==
    [ret |-> is_consistent(a, variable, value), assignment |-> a, domains |-> doms]

-----------------------------------------------------------------------------
(* _neighbours and the heuristics *)

NeighboursOf(c, variable) ==
    IF {"variable1", "variable2"} \subseteq c.keys
    THEN IF PyEq(variable, c.variable1) THEN {c.variable2.v}
         ELSE IF PyEq(variable, c.variable2) THEN {c.variable1.v}
         ELSE {}
    ELSE IF "variables" \in c.keys /\ variable \in Range(c.variables)
    THEN Range(c.variables) \ {variable}
    ELSE {}

_neighbours(variable) == UNION {NeighboursOf(constraints[i], variable) : i \in DOMAIN constraints}

\* iterating the set _neighbours(variable): the order this process gives it
\* (hashOrder lists the names that occur in a set of two names or more)
NeighbourList(variable) ==
    LET nb == _neighbours(variable)
    IN  IF nb = {} THEN <<>>
        ELSE IF Cardinality(nb) = 1 THEN <<CHOOSE x \in nb : TRUE>>
        ELSE SelectSeq(hashOrder, LAMBDA x : x \in nb)

_is_complete(a) == \A i \in DOMAIN variables : variables[i] \in DOMAIN a

_minimum_remaining_variables(unassigned_var) ==
    SortedByKey(unassigned_var, [i \in DOMAIN unassigned_var |-> Len(domains[unassigned_var[i]])])

\* max(..) returns the first element having the largest key
_degree_heuristic(unassigned_var) ==
    LET key(i) == Cardinality(_neighbours(unassigned_var[i]))
    IN  unassigned_var[CHOOSE i \in DOMAIN unassigned_var :
                           /\ \A j \in DOMAIN unassigned_var : key(j) <= key(i)
                           /\ \A j \in 1..(i-1) : key(j) < key(i)]

\* a variant that breaks the tie among the tied variables only
_select_unassigned_variable_tied(a) ==
    LET unassigned_variables == SelectSeq(variables, LAMBDA v : v \notin DOMAIN a)
        mrv_variable == _minimum_remaining_variables(unassigned_variables)
        candidates == SelectSeq(mrv_variable,
                          LAMBDA v : Len(domains[v]) = Len(domains[mrv_variable[1]]))
    IN  IF Len(candidates) > 1 THEN _degree_heuristic(candidates)
        ELSE candidates[1]

_select_unassigned_variable(a) ==
    LET unassigned_variables == SelectSeq(variables, LAMBDA v : v \notin DOMAIN a)
        mrv_variable == _minimum_remaining_variables(unassigned_variables)
        candidates == SelectSeq(mrv_variable,
                          LAMBDA v : Len(domains[v]) = Len(domains[mrv_variable[1]]))
    IN  IF Len(candidates) > 1 THEN _degree_heuristic(unassigned_variables)
        ELSE candidates[1]

\* `variable in constraint` tests the keys of the constraint dict, so the loop
\* body runs only for a variable named like a key, and constraint[0] then raises
\* KeyError (-1 here); otherwise the count stays 0
_count_conflict(variable, value, a) ==
    IF \E i \in DOMAIN constraints : variable \in constraints[i].keys THEN -1 ELSE 0

_least_constrained_value(variable, a) ==
    SortedByKey(domains[variable],
                [i \in DOMAIN domains[variable] |-> _count_conflict(variable, domains[variable][i], a)])

\* a variant that tries the values from the last to the first
_order_domain_value_reversed(variable, a) ==
    LET vals == _least_constrained_value(variable, a)
    IN  [i \in DOMAIN vals |-> vals[Len(vals) + 1 - i]]

_order_domain_value(variable, a) == _least_constrained_value(variable, a)

-----------------------------------------------------------------------------
(* _remove_value *)

\* any(self._is_consistent({var1: val, var2: val2}, var1, val) for val2 in self.domains[var2]),
\* from position j of the list
RECURSIVE AnySupport(_, _, _, _, _)
AnySupport(var1, val, var2, dom2, j) ==
    IF j > Len(dom2) THEN "False"
    ELSE LET d == DictSet(DictSet(EmptyDict, var1, val), var2, dom2[j])
             r == is_consistent(d, var1, val)
         IN  IF r = "False" THEN AnySupport(var1, val, var2, dom2, j + 1) ELSE r

\* the for loop over self.domains[var1], which removes from the list it iterates:
\* the iterator holds a position i, and a removal shifts the rest of the list left
RECURSIVE RemoveLoop(_, _, _, _, _)
RemoveLoop(var1, var2, dom1, i, removed) ==
    IF i > Len(dom1) THEN [dom |-> dom1, removed |-> removed, exc |-> "None"]
    ELSE LET r == AnySupport(var1, dom1[i], var2, domains[var2], 1)
         IN  IF r = "True" THEN RemoveLoop(var1, var2, dom1, i + 1, removed)
             ELSE IF r = "False"
                  THEN RemoveLoop(var1, var2, ListRemove(dom1, dom1[i]), i + 1, TRUE)
             ELSE [dom |-> dom1, removed |-> removed, exc |-> r]

\* a variant that revises the other end of the arc
_remove_value_swapped(var1, var2) == RemoveLoop(var2, var1, domains[var2], 1, FALSE)

_remove_value(var1, var2) == RemoveLoop(var1, var2, domains[var1], 1, FALSE)

-----------------------------------------------------------------------------
(* The problem builders *)

n_queens_problem(n) ==
    LET name(i) == "Q[" \o ToString(i) \o "]"
        pairs == {q \in (1..n) \X (1..n) : q[1] < q[2]}
        \* the k-th pair (i, j), i < j, in the order of the two nested loops
        pair(k) == CHOOSE q \in pairs :
                       Cardinality({r \in pairs : r[1] < q[1] \/ (r[1] = q[1] /\ r[2] < q[2])}) = k - 1
        ref(i) == PyStr("Q" \o ToString(i))
        types == <<"row-different", "column-different", "diagonal-different">>
    IN  [variables |-> [i \in 1..n |-> name(i)],
         domains |-> [q \in {name(i) : i \in 1..n} |->
                         [k \in 1..(n * n) |-> <<(k - 1) \div n, (k - 1) % n>>]],
         constraints |-> [k \in 1..(3 * Cardinality(pairs)) |->
                             Binary(types[((k - 1) % 3) + 1],
                                    ref(pair(((k - 1) \div 3) + 1)[1]),
                                    ref(pair(((k - 1) \div 3) + 1)[2]))]]

Regions == <<"WA", "NT", "Q", "NSW", "V", "SA", "T">>

map_coloring_problem(n) ==
    LET m == Len(Regions)
        first(k) == ((k - 1) \div (m - 1)) + 1
        other(k) == LET j == ((k - 1) % (m - 1)) + 1 IN IF j < first(k) THEN j ELSE j + 1
    IN  [variables |-> Regions,
         domains |-> [r \in Range(Regions) |-> [i \in 1..n |-> "c" \o ToString(i)]],
         constraints |-> [k \in 1..(m * (m - 1)) |->
                             Binary("color-different", PySet(Regions[first(k)]),
                                    PySet(Regions[other(k)]))]]

\* the case n == 0 of cryptarithmethic_problem
cryptarithmethic_problem(n) ==
    LET carry_variables == [i \in 1..(n + 1) |-> "x" \o ToString(i + 1)]
        letters == <<"F", "R", "O", "T">>
        all == letters \o carry_variables
    IN  [variables |-> all,
         domains |-> [x \in Range(all) |->
                         IF x \in Range(carry_variables) THEN <<0, 1>>
                         ELSE IF x # "T" THEN [i \in 1..10 |-> i - 1]
                         ELSE [i \in 1..9 |-> i]],
         constraints |-> << SumConstraint(Expr(<<"O", "O">>, <<"R">>, <<"x1">>)),
                            SumConstraint(Expr(<<"T", "T", "x1">>, <<"O">>, <<"x2">>)),
                            SumConstraint(Expr(<<"F">>, <<"x2">>, <<>>)),
                            Different(all) >>]

create_problem(type, n) ==
    CASE type = "P1" -> n_queens_problem(n)
      [] type = "P2" -> map_coloring_problem(n)
      [] type = "P3" -> cryptarithmethic_problem(n)

-----------------------------------------------------------------------------
(* save_problem and load_problem.  Here a Python object carries its type:    *)
(* Obj("str", <<s>>), Obj("int", <<k>>), Obj("tuple", items),                *)
(* Obj("list", items), Obj("set", items); two objects of different types are *)
(* not ==.  A JSON value is "string", "number" or "array".                   *)

Obj(type, items) == [type |-> type, items |-> items]

\* the values a builder puts in the domains: (row, column) tuples for P1,
\* color names for P2, digits for P3
Value(type, v) ==
    CASE type = "P1" -> Obj("tuple", v)
      [] type = "P2" -> Obj("str", <<v>>)
      [] type = "P3" -> Obj("int", <<v>>)

\* the problem of a builder as Python objects
Objects(type, problem) ==
    [variables |-> problem.variables,
     domains |-> [v \in DOMAIN problem.domains |->
                     [i \in DOMAIN problem.domains[v] |-> Value(type, problem.domains[v][i])]],
     constraints |-> [i \in DOMAIN problem.constraints |->
                         [problem.constraints[i] EXCEPT !.variable1 = Obj(@.tag, <<@.v>>),
                                                        !.variable2 = Obj(@.tag, <<@.v>>)]]]

\* the characters of a name: the str references the builders store are "Q"
\* followed by one digit, any other name here has one character
Chars(s) ==
    IF \E d \in 0..9 : s = "Q" \o ToString(d)
    THEN <<"Q", ToString(CHOOSE d \in 0..9 : s = "Q" \o ToString(d))>>
    ELSE <<s>>

\* list(o): the characters of a str, the elements of a set, list or tuple
PyList(o) == IF o.type = "str" THEN Obj("list", Chars(o.items[1])) ELSE Obj("list", o.items)

\* json.dump of one object: lists and tuples both become arrays
JsonDump(o) ==
    CASE o.type = "str" -> Obj("string", o.items)
      [] o.type = "int" -> Obj("number", o.items)
      [] o.type \in {"list", "tuple"} -> Obj("array", o.items)

\* json.load of one value: an array becomes a list
JsonLoad(j) ==
    CASE j.type = "string" -> Obj("str", j.items)
      [] j.type = "number" -> Obj("int", j.items)
      [] j.type = "array" -> Obj("list", j.items)
      [] OTHER -> j

\* the file save_problem writes for a problem given as Python objects; a key a
\* constraint dict does not have keeps the placeholder of the constraint records
save_problem(problem) ==
    LET cons == problem.constraints
        copied == SelectSeq(cons, LAMBDA c : c.type \in {"sum", "different"})
    IN  [Variables |-> problem.variables,
         Domains |-> [v \in DOMAIN problem.domains |->
                         [i \in DOMAIN problem.domains[v] |-> JsonDump(problem.domains[v][i])]],
         Constraints |->
             IF "F" \in Range(problem.variables)
             THEN [i \in DOMAIN copied |->
                      IF copied[i].type = "sum"
                      THEN [keys |-> {"type", "expression"}, type |-> "sum",
                            variable1 |-> Obj("none", <<"">>), variable2 |-> Obj("none", <<"">>),
                            variables |-> <<>>, expression |-> copied[i].expression]
                      ELSE [keys |-> {"type", "variables"}, type |-> "different",
                            variable1 |-> Obj("none", <<"">>), variable2 |-> Obj("none", <<"">>),
                            variables |-> copied[i].variables, expression |-> NoExpr]]
             ELSE [i \in DOMAIN cons |->
                      [keys |-> {"type", "variable1", "variable2"}, type |-> cons[i].type,
                       variable1 |-> JsonDump(PyList(cons[i].variable1)),
                       variable2 |-> JsonDump(PyList(cons[i].variable2)),
                       variables |-> <<>>, expression |-> NoExpr]]]

\* the triple load_problem returns for a file
load_problem(file) ==
    [variables |-> file.Variables,
     domains |-> [v \in DOMAIN file.Domains |->
                     [i \in DOMAIN file.Domains[v] |-> JsonLoad(file.Domains[v][i])]],
     constraints |-> [i \in DOMAIN file.Constraints |->
                         [file.Constraints[i] EXCEPT !.variable1 = JsonLoad(@),
                                                     !.variable2 = JsonLoad(@)]]]

-----------------------------------------------------------------------------
(* Problems handed to CSP_generic directly *)

\* the lists a domain can be: no value twice, any order
DomainLists ==
    UNION {{s \in [1..n -> 1..MaxVal] : \A i, j \in 1..n : i # j => s[i] # s[j]} : n \in 1..MaxVal}

\* the ranges 1..k, as the builders make them
RangeLists == {[i \in 1..k |-> i] : k \in 1..MaxVal}

\* two-variable problems take any list as a domain, three-variable ones a range
DomainChoices(vs) == IF Len(vs) = 2 THEN DomainLists ELSE RangeLists

GenericVariables == {<<"WA", "NT">>, <<"F", "R">>, <<"A", "B">>, <<"WA", "NT", "SA">>}

ConstraintMenu(vs) ==
    IF Len(vs) = 2
    THEN << Binary("color-different", PyStr(vs[1]), PyStr(vs[2])),
            Binary("color-different", PyStr(vs[2]), PyStr(vs[1])),
            Different(vs),
            Predicate(vs, Expr(<<vs[1]>>, <<vs[2]>>, <<>>)) >>
    ELSE << Binary("color-different", PyStr(vs[1]), PyStr(vs[2])),
            Binary("color-different", PyStr(vs[3]), PyStr(vs[2])),
            Different(vs),
            Different(<<vs[1], vs[3]>>),
            Different(<<vs[2], vs[3]>>) >>

\* the sub-lists of the menu with at most MaxCons constraints
ConstraintLists(vs) ==
    LET menu == ConstraintMenu(vs)
        picks == {S \in SUBSET DOMAIN menu : Cardinality(S) <= MaxCons}
        nth(S, k) == CHOOSE i \in S : Cardinality({j \in S : j < i}) = k - 1
    IN  {[k \in 1..Cardinality(S) |-> menu[nth(S, k)]] : S \in picks}

\* the orders in which the names that occur in a set of two neighbours or more can come
HashOrders ==
    LET names == UNION {_neighbours(variables[i]) : i \in
                           {j \in DOMAIN variables : Cardinality(_neighbours(variables[j])) > 1}}
    IN  {s \in [1..Cardinality(names) -> names] :
            \A i, j \in DOMAIN s : i # j => s[i] # s[j]}

-----------------------------------------------------------------------------
(* CSP_generic(problem) followed by backtracking_search() *)

Start(k, n, problem) ==
    /\ kind = k
    /\ size = n
    /\ variables = problem.variables
    /\ constraints = problem.constraints
    /\ domains = problem.domains
    /\ startDomains = problem.domains
    /\ hashOrder \in HashOrders
    /\ assignment = EmptyDict
    /\ expanded_nodes = 0
    /\ stack = <<>>
    /\ queue = <<>>
    /\ pc = "call"
    /\ result = "none"

Init ==
    \/ \E n \in 1..MaxQueens : Start("P1", n, n_queens_problem(n))
    \/ \E n \in 1..MaxColors : Start("P2", n, map_coloring_problem(n))
    \/ Start("P3", 0, cryptarithmethic_problem(0))
    \/ \E vs \in GenericVariables :
          \E doms \in [Range(vs) -> DomainChoices(vs)] :
             \E cs \in ConstraintLists(vs) :
                Start("generic", 0, [variables |-> vs, domains |-> doms, constraints |-> cs])

Top == stack[Len(stack)]

\* a variant that leaves the frame as it is
SetTop_same(field, val) == stack

SetTop(field, val) == [stack EXCEPT ![Len(stack)] = [@ EXCEPT ![field] = val]]

Raise(exc) ==
    /\ pc' = "done"
    /\ result' = exc

\* the list comprehension that fills the worklist
RECURSIVE ArcsFrom(_)
ArcsFrom(i) ==
    IF i > Len(variables) THEN <<>>
    ELSE LET nb == NeighbourList(variables[i])
         IN  [k \in DOMAIN nb |-> <<variables[i], nb[k]>>] \o ArcsFrom(i + 1)

\* entry of _recursive_backtracking up to the head of its value loop
Enter ==
    /\ pc = "call"
    /\ expanded_nodes' = expanded_nodes + 1
    /\ UNCHANGED <<kind, size, variables, constraints, domains, startDomains, hashOrder,
                   assignment, queue>>
    /\ IF _is_complete(assignment)
       THEN /\ pc' = "done"
            /\ result' = "solution"
            /\ stack' = <<>>
       ELSE \E var \in {_select_unassigned_variable(assignment)} :
            \E values \in {_order_domain_value(var, assignment)} :
                IF \E i \in DOMAIN domains[var] :
                       _count_conflict(var, domains[var][i], assignment) < 0
                THEN Raise("KeyError") /\ UNCHANGED stack
                ELSE /\ stack' = Append(stack, [var |-> var, values |-> values,
                                                idx |-> 1, saved |-> <<>>])
                     /\ pc' = "loop"
                     /\ UNCHANGED result

\* `if self._is_consistent(assignment, var, value)` for the next value of the loop
Check ==
    /\ pc = "loop"
    /\ Top.idx <= Len(Top.values)
    /\ \E call \in {is_consistent_call(assignment, domains, Top.var, Top.values[Top.idx])} :
           /\ assignment' = call.assignment
           /\ domains' = call.domains
           /\ IF call.ret = "True"
              THEN pc' = "commit" /\ UNCHANGED <<stack, result>>
              ELSE IF call.ret = "False"
              THEN pc' = "loop" /\ stack' = SetTop("idx", Top.idx + 1) /\ UNCHANGED result
              ELSE Raise(call.ret) /\ UNCHANGED stack
    /\ UNCHANGED <<kind, size, variables, constraints, startDomains, hashOrder,
                   expanded_nodes, queue>>

\* `assignment[var] = value` and the start of _constraint_propagation
Commit ==
    /\ pc = "commit"
    /\ assignment' = DictSet(assignment, Top.var, Top.values[Top.idx])
    /\ stack' = SetTop("saved", <<domains>>)
    /\ queue' = ArcsFrom(1)
    /\ pc' = "propagate"
    /\ UNCHANGED <<kind, size, variables, constraints, domains, startDomains, hashOrder,
                   expanded_nodes, result>>

\* one turn of the while loop of _constraint_propagation; on a wipe-out the
\* propagation returns False and the caller runs `del assignment[var]`
Revise ==
    /\ pc = "propagate"
    /\ queue # <<>>
    /\ \E rv \in {_remove_value(Head(queue)[1], Head(queue)[2])} :
       LET var1 == Head(queue)[1]
           var2 == Head(queue)[2]
           nb == NeighbourList(var1)
           again == SelectSeq(nb, LAMBDA x : x # var2 /\ x \notin DOMAIN assignment)
       IN  /\ domains' = [domains EXCEPT ![var1] = rv.dom]
           /\ IF rv.exc # "None"
              THEN Raise(rv.exc) /\ UNCHANGED <<assignment, stack, queue>>
              ELSE IF rv.removed /\ rv.dom = <<>>
              THEN /\ assignment' = DictDel(assignment, Top.var)
                   /\ stack' = SetTop("idx", Top.idx + 1)
                   /\ queue' = <<>>
                   /\ pc' = "loop"
                   /\ UNCHANGED result
              ELSE /\ queue' = IF rv.removed
                               THEN Tail(queue) \o [k \in DOMAIN again |-> <<again[k], var1>>]
                               ELSE Tail(queue)
                   /\ UNCHANGED <<assignment, stack, pc, result>>
    /\ UNCHANGED <<kind, size, variables, constraints, startDomains, hashOrder, expanded_nodes>>

\* the worklist is empty: _constraint_propagation returns True and the search recurses
Recurse ==
    /\ pc = "propagate"
    /\ queue = <<>>
    /\ pc' = "call"
    /\ UNCHANGED <<kind, size, variables, constraints, domains, startDomains, hashOrder,
                   assignment, expanded_nodes, stack, queue, result>>

\* the value loop is over: `return False`; the caller, if any, runs
\* `del assignment[var]` and goes on with its next value
Exhausted ==
    /\ pc = "loop"
    /\ Top.idx > Len(Top.values)
    /\ IF Len(stack) = 1
       THEN /\ stack' = <<>>
            /\ pc' = "done"
            /\ result' = "failure"
            /\ UNCHANGED assignment
       ELSE LET parent == stack[Len(stack) - 1]
            IN  /\ assignment' = DictDel(assignment, parent.var)
                /\ stack' = [SubSeq(stack, 1, Len(stack) - 1) EXCEPT
                                ![Len(stack) - 1] = [@ EXCEPT !.idx = parent.idx + 1]]
                /\ UNCHANGED <<pc, result>>
    /\ UNCHANGED <<kind, size, variables, constraints, domains, startDomains, hashOrder,
                   expanded_nodes, queue>>

Next == Enter \/ Check \/ Commit \/ Revise \/ Recurse \/ Exhausted

Spec == Init /\ [][Next]_vars

\* the interpreter runs the one thread of the search without ever pausing it:
\* a step that can be taken is taken
FairSpec == Spec /\ WF_vars(Next)

-----------------------------------------------------------------------------
(* What the constraints of a problem mean, for stating the properties below *)

Unassigned == {variables[i] : i \in DOMAIN variables} \ DOMAIN assignment

\* a complete assignment a satisfies constraint c; a binary relation whose
\* references name no variable of the problem constrains nothing
Holds(c, a) ==
    IF {"variable1", "variable2"} \subseteq c.keys
    THEN (c.variable1.tag = "str" /\ c.variable2.tag = "str"
          /\ c.variable1.v \in DOMAIN a /\ c.variable2.v \in DOMAIN a)
         => IF c.type \in QueenTypes
            THEN constraint_checks_queen(c.type, a[c.variable1.v], a[c.variable2.v])
            ELSE a[c.variable1.v] # a[c.variable2.v]
    ELSE IF "expression" \in c.keys
    THEN (ExprNames(c.expression) \subseteq DOMAIN a) => Eval(c.expression, a) = "True"
    ELSE \A i, j \in DOMAIN c.variables :
            (i # j /\ c.variables[i] \in DOMAIN a /\ c.variables[j] \in DOMAIN a)
            => a[c.variables[i]] # a[c.variables[j]]

\* s is t with some elements dropped, the others in the order t has them
RECURSIVE IsSubSeq(_, _)
IsSubSeq(s, t) ==
    IF s = <<>> THEN TRUE
    ELSE IF t = <<>> THEN FALSE
    ELSE IF Head(s) = Head(t) THEN IsSubSeq(Tail(s), Tail(t))
    ELSE IsSubSeq(s, Tail(t))

StartValues == UNION {Range(startDomains[v]) : v \in DOMAIN startDomains}

\* some complete assignment drawn from the starting domains satisfies every constraint
Satisfiable ==
    \E a \in [Range(variables) -> StartValues] :
        /\ \A v \in Range(variables) : a[v] \in Range(startDomains[v])
        /\ \A i \in DOMAIN constraints : Holds(constraints[i], a)

\* the adjacency of the Australian regions
Adjacent == {<<"WA", "NT">>, <<"WA", "SA">>, <<"NT", "SA">>, <<"NT", "Q">>, <<"SA", "Q">>,
             <<"SA", "NSW">>, <<"SA", "V">>, <<"Q", "NSW">>, <<"NSW", "V">>}

-----------------------------------------------------------------------------
(* Properties *)

\* C1: a result other than failure assigns every variable a value of its starting
\* domain and violates no constraint of the problem
C1_Soundness ==
    result = "solution" =>
        /\ _is_complete(assignment)
        /\ \A v \in DOMAIN assignment : assignment[v] \in Range(startDomains[v])
        /\ \A i \in DOMAIN constraints : Holds(constraints[i], assignment)

\* C2: with non-empty starting domains the search returns failure only if no
\* complete assignment drawn from the starting domains satisfies all constraints
C2_Completeness ==
    (result = "failure" /\ \A v \in DOMAIN startDomains : startDomains[v] # <<>>)
        => ~Satisfiable

\* C3: once a committed candidate has failed, at the moment the next candidate is
\* tried or failure is returned, every domain is what it was just before the commit
C3_DomainRollback ==
    (pc = "loop" /\ Top.saved # <<>>) => domains = Top.saved[1]

\* C4: with an empty constraint list the search returns the first element of every
\* domain and expanded_nodes ends as |variables| + 1
C4_ZeroConstraints ==
    (constraints = <<>> /\ pc = "done") =>
        /\ result = "solution"
        /\ DOMAIN assignment = Range(variables)
        /\ \A v \in DOMAIN assignment : assignment[v] = startDomains[v][1]
        /\ expanded_nodes = Len(variables) + 1

C4_Witness ==
    /\ constraints = <<>>
    /\ pc = "done"
    /\ kind = "generic"
    /\ \E v \in DOMAIN startDomains : Len(startDomains[v]) > 1 /\ startDomains[v][1] = 2

\* C5: n_queens_problem(n) gives failure for n = 2 and n = 3 and a one-variable
\* solution for n = 1
C5_QueensSmall ==
    (kind = "P1" /\ pc = "done") =>
        /\ size \in {2, 3} => result = "failure"
        /\ size = 1 => (result = "solution" /\ DOMAIN assignment = {"Q[1]"})

\* C6: n_queens_problem(4) gives an assignment of the four queens in which no two
\* queens share a row, a column or a diagonal
C6_Queens4 ==
    (kind = "P1" /\ size = 4 /\ pc = "done") =>
        /\ result = "solution"
        /\ DOMAIN assignment = Range(variables)
        /\ \A p, q \in DOMAIN assignment :
              p # q => \A t \in QueenTypes :
                          constraint_checks_queen(t, assignment[p], assignment[q])

\* C7: map_coloring_problem(k) gives a solution if and only if k >= 3, and a
\* solution gives adjacent regions different colors
C7_MapColoring ==
    (kind = "P2" /\ pc = "done") =>
        /\ (result = "solution") <=> (size >= 3)
        /\ result = "solution" =>
              \A e \in Adjacent : assignment[e[1]] # assignment[e[2]]

\* C8: an assignment returned for cryptarithmethic_problem(0) has F, R, O, T pairwise
\* distinct, T nonzero, and makes every arithmetic expression of the problem true
C8_Crypt0 ==
    (kind = "P3" /\ size = 0 /\ result = "solution") =>
        /\ \A p, q \in {"F", "R", "O", "T"} : p # q => assignment[p] # assignment[q]
        /\ assignment["T"] # 0
        /\ \A i \in DOMAIN constraints :
              "expression" \in constraints[i].keys
              => Eval(constraints[i].expression, assignment) = "True"

\* C9: when propagation has returned true, and at every entry to
\* _recursive_backtracking, every unassigned variable has a non-empty domain
C9_NoEmptyDomain ==
    pc = "call" => \A v \in Unassigned : domains[v] # <<>>

C11_Monotone ==
    /\ [](\A v \in DOMAIN domains : IsSubSeq(domains[v], startDomains[v]))
    /\ [][\A v \in DOMAIN domains : IsSubSeq(domains'[v], domains[v])]_vars

\* a propagation call has returned True after removing a value from a domain of
\* two values
C11_Witness ==
    /\ pc = "call"
    /\ stack # <<>>
    /\ \E v \in DOMAIN domains :
          Len(startDomains[v]) = 2 /\ domains[v] = <<startDomains[v][2]>>

\* C12: for every problem of create_problem, save_problem followed by load_problem
\* gives a triple equal to the generated one: every variable reference of a binary
\* constraint and every domain value is reproduced unchanged
C12_RoundTrip ==
    (kind \in {"P1", "P2", "P3"} /\ pc = "call" /\ stack = <<>>) =>
        LET problem == Objects(kind, create_problem(kind, size))
        IN  /\ problem = Objects(kind, [variables |-> variables, domains |-> domains,
                                        constraints |-> constraints])
            /\ load_problem(save_problem(problem)) = problem

\* the binary relation c, taken between the candidate value of `variable` and the
\* value the assignment a gives the other variable of c, is violated
Violated(c, a, variable, value) ==
    /\ {"variable1", "variable2"} \subseteq c.keys
    /\ c.variable1.tag = "str" /\ c.variable2.tag = "str"
    /\ variable \in {c.variable1.v, c.variable2.v}
    /\ LET other == IF c.variable1.v = variable THEN c.variable2.v ELSE c.variable1.v
           t == DictSet(a, variable, value)
       IN  /\ other \in DOMAIN t
           /\ IF c.type \in QueenTypes
              THEN ~constraint_checks_queen(c.type, t[c.variable1.v], t[c.variable2.v])
              ELSE t[c.variable1.v] = t[c.variable2.v]

\* C13: in a problem of 'values differ' relations between declared variables, the
\* check of a candidate returns false exactly when some relation between the
\* candidate's variable and an assigned variable is violated, whether the
\* candidate's variable is variable1 or variable2 of the relation
C13_BinaryCheck ==
    (/\ pc = "loop" /\ Top.idx <= Len(Top.values)
     /\ "WA" \in Range(variables)
     /\ \A i \in DOMAIN constraints :
           /\ {"variable1", "variable2"} \subseteq constraints[i].keys
           /\ constraints[i].variable1.tag = "str")
    => LET value == Top.values[Top.idx]
       IN  (is_consistent(assignment, Top.var, value) = "False")
           <=> \E i \in DOMAIN constraints :
                  Violated(constraints[i], assignment, Top.var, value)

\* the arithmetic predicate c references `variable`, every name of its expression
\* has a value in the assignment a plus the candidate, and the expression is false
PredicateFalse(c, a, variable, value) ==
    /\ "expression" \in c.keys
    /\ variable \in ExprNames(c.expression)
    /\ ExprNames(c.expression) \subseteq DOMAIN DictSet(a, variable, value)
    /\ Eval(c.expression, DictSet(a, variable, value)) = "False"

\* the all-different constraint c gives `variable` the value of an assigned variable
DifferentViolated(c, a, variable, value) ==
    /\ c.keys = {"type", "variables"} /\ c.type = "different"
    /\ \E i \in DOMAIN c.variables :
          /\ variable \in Range(c.variables)
          /\ c.variables[i] # variable
          /\ c.variables[i] \in DOMAIN a
          /\ a[c.variables[i]] = value

\* C14: in a problem of arithmetic predicates and all-different constraints, the
\* check of a candidate returns false exactly when an all-different constraint is
\* violated or an arithmetic predicate whose names are all assigned by the
\* assignment plus the candidate evaluates to false: a predicate with a name still
\* unassigned does not reject the candidate, and a completed one gives its truth value
C14_ArithmeticCheck ==
    (/\ pc = "loop" /\ Top.idx <= Len(Top.values)
     /\ \A i \in DOMAIN constraints : ~({"variable1", "variable2"} \subseteq constraints[i].keys)
     /\ \E i \in DOMAIN constraints : "expression" \in constraints[i].keys)
    => LET value == Top.values[Top.idx]
       IN  (is_consistent(assignment, Top.var, value) = "False")
           <=> \E i \in DOMAIN constraints :
                  \/ PredicateFalse(constraints[i], assignment, Top.var, value)
                  \/ DifferentViolated(constraints[i], assignment, Top.var, value)

\* some value w of Y's domain makes _is_consistent({X: v, Y: w}, X, v) true
Supported(X, v, Y) ==
    \E j \in DOMAIN domains[Y] :
        is_consistent(DictSet(DictSet(EmptyDict, X, v), Y, domains[Y][j]), X, v) = "True"

\* C15: when _remove_value(X, Y) returns, no value left in X's domain is without a
\* supporting value in Y's domain, every value it removed was without one, and it
\* returns true exactly when it removed a value
C15_Revise ==
    (pc = "propagate" /\ queue # <<>>) =>
        LET X == Head(queue)[1]
            Y == Head(queue)[2]
            rv == _remove_value(X, Y)
        IN  rv.exc = "None" =>
               /\ \A v \in Range(rv.dom) : Supported(X, v, Y)
               /\ \A v \in Range(domains[X]) \ Range(rv.dom) : ~Supported(X, v, Y)
               /\ rv.removed <=> (rv.dom # domains[X])

\* the number of pairs (unassigned neighbour, value of its domain) that
\* _is_consistent finds inconsistent with the candidate value of `variable`
ConflictCount(variable, value, a) ==
    Cardinality(UNION {{<<nb, j>> : j \in {k \in DOMAIN domains[nb] :
                           is_consistent(DictSet(DictSet(EmptyDict, variable, value),
                                                 nb, domains[nb][k]),
                                         variable, value) = "False"}} :
                       nb \in _neighbours(variable) \ DOMAIN a})

\* C16: _order_domain_value gives the domain of the selected variable sorted by
\* ascending conflict count, values of equal count in domain order
C16_ValueOrder ==
    (pc = "call" /\ ~_is_complete(assignment)) =>
        LET var == _select_unassigned_variable(assignment)
            dom == domains[var]
        IN  _order_domain_value(var, assignment)
               = SortedByKey(dom, [i \in DOMAIN dom |-> ConflictCount(var, dom[i], assignment)])

\* the declared variables that occur together with v in some constraint
CoOccurring(v) ==
    LET names(c) == IF {"variable1", "variable2"} \subseteq c.keys
                    THEN {c.variable1.v, c.variable2.v}
                    ELSE Range(c.variables) \cup ExprNames(c.expression)
    IN  (UNION {names(constraints[i]) :
                   i \in {j \in DOMAIN constraints : v \in names(constraints[j])}}
         \cap Range(variables)) \ {v}

\* the unassigned variables whose current domain is the shortest
MinDomain ==
    {v \in Unassigned : \A u \in Unassigned : Len(domains[v]) <= Len(domains[u])}

\* the position of a variable in `variables`
Position(v) == CHOOSE i \in DOMAIN variables : variables[i] = v

\* C17: the variable selected at the entry of a call is unassigned; it is the one
\* unassigned variable of minimum domain size if there is exactly one; if several
\* tie it is the unassigned variable with the most distinct neighbours, the
\* earliest in `variables` among those
C17_Selection ==
    (pc = "loop" /\ Top.idx = 1 /\ Top.saved = <<>>) =>
        /\ Top.var \in Unassigned
        /\ Cardinality(MinDomain) = 1 => Top.var \in MinDomain
        /\ Cardinality(MinDomain) > 1 =>
              \A u \in Unassigned \ {Top.var} :
                 \/ Cardinality(CoOccurring(u)) < Cardinality(CoOccurring(Top.var))
                 \/ /\ Cardinality(CoOccurring(u)) = Cardinality(CoOccurring(Top.var))
                    /\ Position(Top.var) < Position(u)

\* a tie for the minimum was broken in favour of a variable outside the tie
C17_Witness ==
    /\ pc = "loop" /\ Top.idx = 1 /\ Top.saved = <<>>
    /\ Cardinality(MinDomain) > 1
    /\ Top.var \notin MinDomain

\* the assignment made of the committed candidates of the n lowest frames
FrameAssignment(n) ==
    [v \in {stack[i].var : i \in 1..n} |->
        LET i == CHOOSE k \in 1..n : stack[k].var = v
        IN  stack[i].values[stack[i].idx]]

\* the assignment is the committed candidates of the levels above the current call
LevelEntries ==
    /\ pc \in {"loop", "commit"} =>
          /\ assignment = FrameAssignment(Len(stack) - 1)
          /\ Cardinality(DOMAIN assignment) = Len(stack) - 1
    /\ (pc = "propagate" \/ (pc = "call" /\ stack # <<>>)) =>
          /\ assignment = FrameAssignment(Len(stack))
          /\ Cardinality(DOMAIN assignment) = Len(stack)
    /\ Len(stack) <= Len(variables)
    /\ result = "failure" => assignment = EmptyDict

\* C18: while the search runs the assignment holds exactly one entry per recursion
\* level above the current call, the committed candidate of that level, and the
\* frames below a running call do not change: so a call that returns failure leaves
\* the assignment as it was on its entry, the depth never exceeds |variables| + 1,
\* and the assignment is empty when the search returns failure
C18_Lifecycle ==
    /\ []LevelEntries
    /\ [][(stack # <<>> /\ Len(stack') >= Len(stack)) =>
              SubSeq(stack', 1, Len(stack) - 1) = SubSeq(stack, 1, Len(stack) - 1)]_vars

\* the search returned failure after nested calls had failed
C18_Witness ==
    /\ result = "failure"
    /\ expanded_nodes >= 3

\* no reachable check of a binary relation meets a problem shape the engine cannot
\* evaluate: the names it looks for are declared, or no relation refers to a variable
Evaluable ==
    \/ {"WA", "F", "Q["} \cap Range(variables) # {}
    \/ \A i \in DOMAIN constraints : \A v \in Range(variables) :
          ~PyEq(v, constraints[i].variable1) /\ ~PyEq(v, constraints[i].variable2)

\* C19: the search comes to its end, and for a problem the engine can evaluate the
\* end is Success or Failure; these two ends are reached only from the entry of a
\* call or from an exhausted value loop, so every propagation call before them has
\* come to its own end (its worklist emptied, or a domain wiped out)
C19_Termination ==
    <>(pc = "done" /\ (Evaluable => result \in {"solution", "failure"}))

\* a solution was returned after propagation calls that pruned a domain
C19_Witness ==
    /\ pc = "done"
    /\ result = "solution"
    /\ expanded_nodes = Len(variables) + 1
    /\ \E v \in DOMAIN domains : Len(domains[v]) < Len(startDomains[v])

\* some constraint is malformed: an arithmetic expression names a variable the
\* problem does not declare, or a binary relation refers to a declared variable in
\* a problem whose shape the engine does not recognise
Malformed ==
    \/ \E i \in DOMAIN constraints :
          /\ "expression" \in constraints[i].keys
          /\ ~(ExprNames(constraints[i].expression) \subseteq Range(variables))
    \/ ~Evaluable

\* C20: the search on a problem with a malformed constraint ends with a reported
\* error, never with a solution or with failure
C20_FailFast ==
    (Malformed /\ pc = "done") => result \notin {"solution", "failure"}

====
